---- MODULE Spec2Model ----
(***************************************************************************)
(* Device-state reconciliation and broadcast engine of jarv/mqtt:          *)
(* Subscriber (subscriber.go), the devices table (query.sql, schema in     *)
(* main.go), ConnectionManager (wsconn.go), the broker callback            *)
(* (broker.go) and the websocket handler (app.go).                         *)
(*                                                                         *)
(* Time is counted in hours.  Every per-message context has a 5 second     *)
(* deadline, so any advance of the clock expires the contexts of the       *)
(* operations in flight.  Floating point payload fields are counted in     *)
(* tenths (battery_level 205 is 20.5); coordinates are kept as the decimal *)
(* number latitude_i * 10^-7.                                              *)
(***************************************************************************)
EXTENDS Integers, Sequences, FiniteSets, TLC

\* ---------------------------------------------------------------- bounds
\* accepted messages in one run, and the last hour the clock reaches
MaxMsgs == 2
MaxNow == 50

\* ------------------------------------------------------ program constants
StaleHours == 48
\* seconds: the deadline of a handler's context, of the context
\* broadcastDevices derives for the fan-out, and of one write to a viewer
CtxSecs == 5
FanoutSecs == 10
WriteSecs == 5

\* the goroutines the broker runs its publish callback on, the sweeper's
\* goroutine, and the websocket connections of the viewers
Procs == {"g1", "g2"}
Sweeper == "sweeper"
Workers == Procs \cup {Sweeper}
Viewers == {"v1", "v2"}
TimeSteps == {23, 24, 25}
Froms == {10, 16}

VARIABLES now, store, nCommit, connections, vpc, pc, msg, existing, mine,
          snapshot, allConns, pending, result, ctxExpired, tickReady, cancelled,
          nMsgs, last, catchup, elapsed

vars == <<now, store, nCommit, connections, vpc, pc, msg, existing, mine,
          snapshot, allConns, pending, result, ctxExpired, tickReady,
          cancelled, nMsgs, last, catchup, elapsed>>

\* ------------------------------------------------------------ identities
HexChars == <<"0","1","2","3","4","5","6","7","8","9","a","b","c","d","e","f">>

RECURSIVE Pow(_, _)
Pow(b, e) == IF e = 0 THEN 1 ELSE b * Pow(b, e - 1)

\* fmt.Sprintf("!%08x", from)
nodeID(from) ==
    <<"!">> \o [i \in 1..8 |-> HexChars[((from \div Pow(16, 8 - i)) % 16) + 1]]

\* the ids of the senders, and of a packet that names no sender
Ids == {nodeID(f) : f \in Froms \cup {0}}

\* --------------------------------------------------------------- topics
Topics == { <<"msh", "EU_868", "2", "json", "LongFast", "!0000000a">>,
            <<"msh", "EU_868", "2", "e", "LongFast", "!0000000a">>,
            <<"devices", "d1", "status">> }

\* topics msh/EU_868/2/{json,e}/LongFast/{node} with the node segment
\* spelled out, for two nodes
NodeTopics ==
    { <<"msh", "EU_868", "2", "json", "LongFast", nodeID(10)>>,
      <<"msh", "EU_868", "2", "json", "LongFast", nodeID(16)>>,
      <<"msh", "EU_868", "2", "e", "LongFast", nodeID(10)>> }

isMeshtasticJSONTopic(parts) ==
    Len(parts) >= 5 /\ parts[1] = "msh" /\ parts[3] = "2" /\ parts[4] = "json"

\* -------------------------------------------------------------- payloads
PositionPayloads ==
    { [latitude_i |-> 0, longitude_i |-> 0, altitude |-> 0,
       ground_speed |-> 0, sats_in_view |-> 0],
      [latitude_i |-> 460569000, longitude_i |-> 145058000, altitude |-> 2950,
       ground_speed |-> 15, sats_in_view |-> 7],
      [latitude_i |-> 0, longitude_i |-> 145058000, altitude |-> 0,
       ground_speed |-> 0, sats_in_view |-> 0] }

TelemetryPayloads ==
    { [battery_level |-> 0, voltage |-> 0],
      [battery_level |-> 100, voltage |-> 39],
      [battery_level |-> 205, voltage |-> 41],
      [battery_level |-> 0, voltage |-> 39] }

Malformed == [bad |-> "json"]

\* the flat object {"lat":46.0569,"lon":14.5058,"battery_mv":3900}
Flat == [lat |-> [mant |-> 460569, exp |-> -4],
         lon |-> [mant |-> 145058, exp |-> -4], battery_mv |-> 3900]

Packets ==
    [from : Froms, type : {"position"}, payload : PositionPayloads \cup {Malformed}]
    \cup [from : Froms, type : {"telemetry"}, payload : TelemetryPayloads \cup {Malformed}]
    \cup [from : Froms, type : {"nodeinfo"},
          payload : {Malformed, [battery_level |-> 100, voltage |-> 39]}]
    \cup {Malformed, Flat}

\* the envelope {"type":"position","payload":{...}} of a fix, without "from"
NoFromFix ==
    [type |-> "position",
     payload |-> [latitude_i |-> 460569000, longitude_i |-> 145058000,
                  altitude |-> 2950, ground_speed |-> 15, sats_in_view |-> 7]]

\* json.Unmarshal(payload, &pkt): an object with none of the packet's
\* fields decodes to the zero MeshtasticPacket, one without "from" to a
\* packet with From = 0
Unmarshal(raw) ==
    IF raw = Flat THEN [from |-> 0, type |-> "", payload |-> Malformed]
    ELSE IF raw = Malformed THEN raw
    ELSE IF "from" \notin DOMAIN raw
         THEN [from |-> 0, type |-> raw.type, payload |-> raw.payload]
    ELSE raw

\* float64(p.LatitudeI) * 1e-7
ZeroFloat == [mant |-> 0, exp |-> 0]
Degrees(i) == IF i = 0 THEN ZeroFloat ELSE [mant |-> i, exp |-> -7]

\* int64(t.BatteryLevel): truncation of a value counted in tenths
Int64OfTenths(x) == x \div 10

\* ----------------------------------------------------------------- rows
NoRow == [none |-> TRUE]
NoMsg == [none |-> TRUE]

\* the zero value of db.Device
ZeroDevice ==
    [id |-> <<>>, lat |-> ZeroFloat, lon |-> ZeroFloat, alt |-> 0, speed |-> 0,
     course |-> 0, sats |-> 0, hdop |-> 0, battery_mv |-> 0, rssi |-> 0,
     snr |-> 0, online |-> 0, last_seen |-> 0, created_at |-> 0, ver |-> 0]

HasRow(st, id) == st[id] # NoRow

\* ------------------------------------------------- Payload normalisation
\* Accept without the no-fix check of handlePosition
AcceptNoFix(topic, raw) ==
    LET pkt == Unmarshal(raw) IN
    IF ~isMeshtasticJSONTopic(topic) THEN NoMsg
    ELSE IF pkt = Malformed THEN NoMsg
    ELSE IF pkt.type = "position"
         THEN IF pkt.payload = Malformed THEN NoMsg
              ELSE [id |-> nodeID(pkt.from), type |-> "position", payload |-> pkt.payload]
    ELSE IF pkt.type = "telemetry"
         THEN IF pkt.payload = Malformed THEN NoMsg
              ELSE IF pkt.payload.battery_level = 0 /\ pkt.payload.voltage = 0
              THEN NoMsg
              ELSE [id |-> nodeID(pkt.from), type |-> "telemetry", payload |-> pkt.payload]
    ELSE NoMsg

\* Accept without the check of handleTelemetry for a payload that has
\* neither battery level nor voltage
AcceptEmptyTelemetry(topic, raw) ==
    LET pkt == Unmarshal(raw) IN
    IF ~isMeshtasticJSONTopic(topic) THEN NoMsg
    ELSE IF pkt = Malformed THEN NoMsg
    ELSE IF pkt.type = "position"
         THEN IF pkt.payload = Malformed THEN NoMsg
              ELSE IF pkt.payload.latitude_i = 0 /\ pkt.payload.longitude_i = 0
              THEN NoMsg
              ELSE [id |-> nodeID(pkt.from), type |-> "position", payload |-> pkt.payload]
    ELSE IF pkt.type = "telemetry"
         THEN IF pkt.payload = Malformed THEN NoMsg
              ELSE [id |-> nodeID(pkt.from), type |-> "telemetry", payload |-> pkt.payload]
    ELSE NoMsg

\* Accept that takes the id from the node segment of the topic
AcceptTopicNode(topic, raw) ==
    LET pkt == Unmarshal(raw) IN
    IF ~isMeshtasticJSONTopic(topic) THEN NoMsg
    ELSE IF pkt = Malformed THEN NoMsg
    ELSE IF pkt.type = "position"
         THEN IF pkt.payload = Malformed THEN NoMsg
              ELSE IF pkt.payload.latitude_i = 0 /\ pkt.payload.longitude_i = 0
              THEN NoMsg
              ELSE [id |-> topic[Len(topic)], type |-> "position", payload |-> pkt.payload]
    ELSE IF pkt.type = "telemetry"
         THEN IF pkt.payload = Malformed THEN NoMsg
              ELSE IF pkt.payload.battery_level = 0 /\ pkt.payload.voltage = 0
              THEN NoMsg
              ELSE [id |-> topic[Len(topic)], type |-> "telemetry", payload |-> pkt.payload]
    ELSE NoMsg

\* HandleMessage lines 77-97 with the decode and no-fix checks of
\* handlePosition (101-110) and handleTelemetry (149-158): the accepted
\* update, or NoMsg when the message is dropped.  The switch on the type
\* comes first: the payload of another type is never decoded.
Accept(topic, raw) ==
    LET pkt == Unmarshal(raw) IN
    IF ~isMeshtasticJSONTopic(topic) THEN NoMsg
    ELSE IF pkt = Malformed THEN NoMsg
    ELSE IF pkt.type = "position"
         THEN IF pkt.payload = Malformed THEN NoMsg
              ELSE IF pkt.payload.latitude_i = 0 /\ pkt.payload.longitude_i = 0
              THEN NoMsg
              ELSE [id |-> nodeID(pkt.from), type |-> "position", payload |-> pkt.payload]
    ELSE IF pkt.type = "telemetry"
         THEN IF pkt.payload = Malformed THEN NoMsg
              ELSE IF pkt.payload.battery_level = 0 /\ pkt.payload.voltage = 0
              THEN NoMsg
              ELSE [id |-> nodeID(pkt.from), type |-> "telemetry", payload |-> pkt.payload]
    ELSE NoMsg

\* ------------------------------------------------------------ Reconciler
NoExisting == [err |-> "unset", row |-> ZeroDevice]

\* PositionParams that carries the online flag forward like the battery
PositionParamsOnlineKept(id, p, ex) ==
    [id |-> id, lat |-> Degrees(p.latitude_i), lon |-> Degrees(p.longitude_i),
     alt |-> p.altitude, speed |-> p.ground_speed, course |-> 0,
     sats |-> p.sats_in_view, hdop |-> 0,
     battery_mv |-> IF ex.err = "nil" THEN ex.row.battery_mv ELSE 0,
     rssi |-> 0, snr |-> 0, online |-> IF ex.err = "nil" THEN ex.row.online ELSE 0]

\* db.UpsertDeviceParams built by handlePosition
PositionParams(id, p, ex) ==
    [id |-> id, lat |-> Degrees(p.latitude_i), lon |-> Degrees(p.longitude_i),
     alt |-> p.altitude, speed |-> p.ground_speed, course |-> 0,
     sats |-> p.sats_in_view, hdop |-> 0,
     battery_mv |-> IF ex.err = "nil" THEN ex.row.battery_mv ELSE 0,
     rssi |-> 0, snr |-> 0, online |-> 1]

\* db.UpsertDeviceParams built by handleTelemetry
TelemetryParams(id, t, ex) ==
    [id |-> id, lat |-> ex.row.lat, lon |-> ex.row.lon, alt |-> ex.row.alt,
     speed |-> ex.row.speed, course |-> 0, sats |-> ex.row.sats, hdop |-> 0,
     battery_mv |-> Int64OfTenths(t.battery_level),
     rssi |-> 0, snr |-> 0, online |-> 1]

ParamsOf(m, ex) ==
    IF m.type = "position" THEN PositionParams(m.id, m.payload, ex)
    ELSE TelemetryParams(m.id, m.payload, ex)

\* ------------------------------------------------------------- the store
\* UpsertRow without "last_seen = CURRENT_TIMESTAMP" in the DO UPDATE clause
UpsertRowKeepsSeen(old, a, t, v) ==
    [id |-> a.id, lat |-> a.lat, lon |-> a.lon, alt |-> a.alt, speed |-> a.speed,
     course |-> a.course, sats |-> a.sats, hdop |-> a.hdop,
     battery_mv |-> a.battery_mv, rssi |-> a.rssi, snr |-> a.snr,
     online |-> a.online,
     last_seen |-> IF old = NoRow THEN t ELSE old.last_seen,
     created_at |-> IF old = NoRow THEN t ELSE old.created_at,
     ver |-> v]

\* UpsertRow as INSERT OR REPLACE: the old row is deleted and a new one
\* inserted
UpsertRowReplace(old, a, t, v) ==
    [id |-> a.id, lat |-> a.lat, lon |-> a.lon, alt |-> a.alt, speed |-> a.speed,
     course |-> a.course, sats |-> a.sats, hdop |-> a.hdop,
     battery_mv |-> a.battery_mv, rssi |-> a.rssi, snr |-> a.snr,
     online |-> a.online, last_seen |-> t, created_at |-> t, ver |-> v]

\* UpsertRow whose INSERT stamps last_seen an hour ahead (local time) while
\* its UPDATE stamps the time of the statement
UpsertRowLocalInsert(old, a, t, v) ==
    [id |-> a.id, lat |-> a.lat, lon |-> a.lon, alt |-> a.alt, speed |-> a.speed,
     course |-> a.course, sats |-> a.sats, hdop |-> a.hdop,
     battery_mv |-> a.battery_mv, rssi |-> a.rssi, snr |-> a.snr,
     online |-> a.online,
     last_seen |-> IF old = NoRow THEN t + 1 ELSE t,
     created_at |-> IF old = NoRow THEN t ELSE old.created_at,
     ver |-> v]

\* INSERT ... ON CONFLICT(id) DO UPDATE ... RETURNING *: the row after the
\* statement, executed at time t as commit number v.
UpsertRow(old, a, t, v) ==
    [id |-> a.id, lat |-> a.lat, lon |-> a.lon, alt |-> a.alt, speed |-> a.speed,
     course |-> a.course, sats |-> a.sats, hdop |-> a.hdop,
     battery_mv |-> a.battery_mv, rssi |-> a.rssi, snr |-> a.snr,
     online |-> a.online, last_seen |-> t,
     created_at |-> IF old = NoRow THEN t ELSE old.created_at,
     ver |-> v]

\* DeleteStale with "<=" for "<"
DeleteStaleInclusive(st, t) ==
    [id \in Ids |-> IF st[id] # NoRow /\ st[id].last_seen <= t - StaleHours
                    THEN NoRow ELSE st[id]]

\* DELETE FROM devices WHERE last_seen < datetime('now', '-48 hours')
DeleteStale(st, t) ==
    [id \in Ids |-> IF st[id] # NoRow /\ st[id].last_seen < t - StaleHours
                    THEN NoRow ELSE st[id]]

\* the listing ordered by last_seen ascending
ListingsAscending(st) ==
    LET present == {id \in Ids : st[id] # NoRow}
        n == Cardinality(present)
    IN { s \in [1..n -> {st[id] : id \in present}] :
            /\ \A i, j \in 1..n : i # j => s[i] # s[j]
            /\ \A i, j \in 1..n : i < j => s[i].last_seen <= s[j].last_seen }

\* SELECT * FROM devices ORDER BY last_seen DESC: every order of the rows
\* the statement may return (rows with equal last_seen in either order).
Listings(st) ==
    LET present == {id \in Ids : st[id] # NoRow}
        n == Cardinality(present)
    IN { s \in [1..n -> {st[id] : id \in present}] :
            /\ \A i, j \in 1..n : i # j => s[i] # s[j]
            /\ \A i, j \in 1..n : i < j => s[i].last_seen >= s[j].last_seen }

\* ---------------------------------------------------- snapshot assembly
NoData == [none |-> TRUE]

\* deviceToView; d.LastSeen.UTC() is the same instant
deviceToView(d) ==
    [ID |-> d.id, Lat |-> d.lat, Lon |-> d.lon, Alt |-> d.alt,
     Speed |-> d.speed, Sats |-> d.sats, BatteryLevel |-> d.battery_mv,
     Online |-> (d.online # 0), LastSeen |-> d.last_seen]

\* views := make([]DeviceView, 0, len(devices)); for ... append
Views(devices) == [i \in 1..Len(devices) |-> deviceToView(devices[i])]

\* json.Marshal of a DeviceView: the fields under their json tags
MarshalView(v) ==
    [id |-> v.ID, lat |-> v.Lat, lon |-> v.Lon, alt |-> v.Alt,
     speed |-> v.Speed, sats |-> v.Sats, battery_level |-> v.BatteryLevel,
     online |-> v.Online, last_seen |-> v.LastSeen]

\* json.Marshal of a DeviceMessage
Marshal(m) ==
    [type |-> m.Type, data |-> [i \in 1..Len(m.Data) |-> MarshalView(m.Data[i])]]

\* broadcastDevices lines 201-207: the bytes passed to BroadcastAll for the
\* rows ListDevices returned
broadcastData(devices) ==
    Marshal([Type |-> "devices", Data |-> Views(devices)])

\* LoadAndBroadcast with an envelope type of its own
LoadAndBroadcastInitial(devices) ==
    Marshal([Type |-> "initial", Data |-> Views(devices)])

\* LoadAndBroadcast lines 247-253: the bytes returned for the rows
\* ListDevices returned
LoadAndBroadcast(devices) ==
    Marshal([Type |-> "devices", Data |-> Views(devices)])

\* handleWebSocket before it has a connection in the registry
NoCatchup == [at |-> "none", data |-> NoData]

\* ------------------------------------------------------ contexts, homes
\* ctx.Done() of the context the worker's store and write calls run under
CtxDone(w) == ctxExpired[w] \/ (w = Sweeper /\ cancelled)

\* the seconds counted one at a time (Elapse) since the worker's context
\* was created (ctx) and since broadcastDevices created broadcastCtx and
\* called BroadcastAll (fan); a step of hours (AdvanceTime) is past every
\* deadline and is recorded in ctxExpired alone
NoTime == [ctx |-> 0, fan |-> 0]

\* context.WithTimeout(ctx, 10*time.Second) of broadcastDevices: done when
\* its parent is done or its own ten seconds have passed
BroadcastCtxDone(w) == CtxDone(w) \/ elapsed[w].fan >= FanoutSecs

\* context.WithTimeout(ctx, 5*time.Second) of a writing goroutine, started
\* with the fan-out: done when broadcastCtx is done or after five seconds
WriteCtxDone(w) == BroadcastCtxDone(w) \/ elapsed[w].fan >= WriteSecs

\* where a worker is when it is not inside an update
Home(w) == IF w = Sweeper THEN "select" ELSE "idle"

\* every connection of the registry, as BroadcastAll collects them
AllConns(cm) == UNION { {cm[n][i] : i \in 1..Len(cm[n])} : n \in DOMAIN cm }

\* the connections registered under name
Members(cm, name) ==
    IF name \in DOMAIN cm THEN {cm[name][i] : i \in 1..Len(cm[name])} ELSE {}

NoResult == [v \in Viewers |-> "none"]

\* --------------------------------------------------- Connection registry
\* ConnectionManager.Add: the map after the call
Add(cm, name, conn) ==
    IF name \in DOMAIN cm
    THEN [cm EXCEPT ![name] = Append(@, conn)]
    ELSE cm @@ (name :> <<conn>>)

\* slices.Delete of the first element equal to conn
DeleteFirst(s, conn) ==
    IF \E i \in 1..Len(s) : s[i] = conn
    THEN LET k == CHOOSE i \in 1..Len(s) :
                    s[i] = conn /\ \A j \in 1..(i - 1) : s[j] # conn
         IN SubSeq(s, 1, k - 1) \o SubSeq(s, k + 1, Len(s))
    ELSE s

\* Remove that stores the emptied list back instead of deleting the group
RemoveKeepsGroup(cm, name, conn) ==
    IF name \notin DOMAIN cm THEN cm
    ELSE [cm EXCEPT ![name] = DeleteFirst(cm[name], conn)]

\* ConnectionManager.Remove: the map after the call
Remove(cm, name, conn) ==
    IF name \notin DOMAIN cm THEN cm
    ELSE LET rest == DeleteFirst(cm[name], conn)
         IN IF Len(rest) = 0
            THEN [n \in DOMAIN cm \ {name} |-> cm[n]]
            ELSE [cm EXCEPT ![name] = rest]

\* ConnectionManager.Count
Count(cm) ==
    LET RECURSIVE Sum(_)
        Sum(S) == IF S = {} THEN 0
                  ELSE LET n == CHOOSE x \in S : TRUE
                       IN Len(cm[n]) + Sum(S \ {n})
    IN Sum(DOMAIN cm)

\* ------------------------------------------------------------------ Init
Init ==
    /\ now = 0
    /\ store = [id \in Ids |-> NoRow]
    /\ nCommit = 0
    /\ connections = [n \in {} |-> <<>>]
    /\ vpc = [v \in Viewers |-> "new"]
    /\ pc = [w \in Workers |-> Home(w)]
    /\ msg = [p \in Procs |-> NoMsg]
    /\ existing = [p \in Procs |-> NoExisting]
    /\ mine = [p \in Procs |-> 0]
    /\ snapshot = [w \in Workers |-> <<>>]
    /\ allConns = [w \in Workers |-> {}]
    /\ pending = [w \in Workers |-> {}]
    /\ result = [w \in Workers |-> NoResult]
    /\ ctxExpired = [w \in Workers |-> FALSE]
    /\ tickReady = FALSE
    /\ cancelled = FALSE
    /\ nMsgs = 0
    /\ last = [v \in Viewers |-> NoData]
    /\ catchup = [v \in Viewers |-> NoCatchup]
    /\ elapsed = [w \in Workers |-> NoTime]

\* ------------------------------------------------- Ingestion entry point
\* The broker callback invokes HandleMessage on goroutine p; a dropped
\* message is at its return statement, an accepted one opens its 5 s
\* context.  nMsgs counts the accepted messages.
HandleMessage(p, topic, pkt) ==
    /\ pc[p] = "idle"
    /\ nMsgs < MaxMsgs
    /\ LET m == Accept(topic, pkt)
       IN IF m = NoMsg
          THEN /\ pc' = [pc EXCEPT ![p] = "dropped"]
               /\ UNCHANGED <<msg, ctxExpired, elapsed, nMsgs>>
          ELSE /\ pc' = [pc EXCEPT ![p] = "get"]
               /\ msg' = [msg EXCEPT ![p] = m]
               /\ ctxExpired' = [ctxExpired EXCEPT ![p] = FALSE]
               /\ elapsed' = [elapsed EXCEPT ![p] = NoTime]
               /\ nMsgs' = nMsgs + 1
    /\ UNCHANGED <<now, store, nCommit, connections, vpc, existing, mine,
                   snapshot, allConns, pending, result, tickReady, cancelled,
                   last, catchup>>

\* the return of a dropped message: HandleMessage gives control back to
\* the broker
DropReturn(p) ==
    /\ pc[p] = "dropped"
    /\ pc' = [pc EXCEPT ![p] = "idle"]
    /\ UNCHANGED <<now, store, nCommit, connections, vpc, msg, existing, mine,
                   snapshot, allConns, pending, result, ctxExpired, elapsed, tickReady,
                   cancelled, nMsgs, last, catchup>>

\* what s.queries.GetDevice can return to worker p
GetResults(p) ==
    {[err |-> "other", row |-> ZeroDevice]}
    \cup (IF CtxDone(p) THEN {}
          ELSE IF HasRow(store, msg[p].id)
               THEN {[err |-> "nil", row |-> store[msg[p].id]]}
               ELSE {[err |-> "norows", row |-> ZeroDevice]})

\* existing, err := s.queries.GetDevice(ctx, id)
GetDevice(p) ==
    /\ pc[p] = "get"
    /\ \E r \in GetResults(p) : existing' = [existing EXCEPT ![p] = r]
    /\ pc' = [pc EXCEPT ![p] = "upsert"]
    /\ UNCHANGED <<now, store, nCommit, connections, vpc, msg, mine, snapshot,
                   allConns, pending, result, ctxExpired, elapsed, tickReady, cancelled, nMsgs,
                   last, catchup>>

\* the worker leaves its update and is back where it waits for work
Return(w) ==
    /\ pc' = [pc EXCEPT ![w] = Home(w)]
    /\ snapshot' = [snapshot EXCEPT ![w] = <<>>]
    /\ allConns' = [allConns EXCEPT ![w] = {}]
    /\ pending' = [pending EXCEPT ![w] = {}]
    /\ result' = [result EXCEPT ![w] = NoResult]
    /\ ctxExpired' = [ctxExpired EXCEPT ![w] = FALSE]
    /\ elapsed' = [elapsed EXCEPT ![w] = NoTime]
    /\ IF w \in Procs
       THEN /\ msg' = [msg EXCEPT ![w] = NoMsg]
            /\ existing' = [existing EXCEPT ![w] = NoExisting]
            /\ mine' = [mine EXCEPT ![w] = 0]
       ELSE UNCHANGED <<msg, existing, mine>>

\* UpsertOk followed by a return in place of broadcastDevices
UpsertOkSilent(p) ==
    /\ pc[p] = "upsert"
    /\ ~CtxDone(p)
    /\ nCommit' = nCommit + 1
    /\ store' = [store EXCEPT ![msg[p].id] =
                    UpsertRow(@, ParamsOf(msg[p], existing[p]), now, nCommit + 1)]
    /\ mine' = [mine EXCEPT ![p] = nCommit + 1]
    /\ existing' = [existing EXCEPT ![p] = NoExisting]
    /\ pc' = [pc EXCEPT ![p] = "idle"]
    /\ UNCHANGED <<now, connections, vpc, msg, snapshot, allConns, pending,
                   result, ctxExpired, elapsed, tickReady, cancelled, nMsgs,
                   last, catchup>>

\* UpsertOk whose statement, lacking its conflict target, also overwrites
\* the rows of the other ids
UpsertOkAllRows(p) ==
    /\ pc[p] = "upsert"
    /\ ~CtxDone(p)
    /\ nCommit' = nCommit + 1
    /\ store' = [i \in Ids |->
                    IF i = msg[p].id \/ HasRow(store, i)
                    THEN [UpsertRow(store[i], ParamsOf(msg[p], existing[p]),
                                    now, nCommit + 1) EXCEPT !.id = i]
                    ELSE store[i]]
    /\ mine' = [mine EXCEPT ![p] = nCommit + 1]
    /\ existing' = [existing EXCEPT ![p] = NoExisting]
    /\ pc' = [pc EXCEPT ![p] = "list"]
    /\ UNCHANGED <<now, connections, vpc, msg, snapshot, allConns, pending,
                   result, ctxExpired, elapsed, tickReady, cancelled, nMsgs,
                   last, catchup>>

\* s.queries.UpsertDevice commits: the row is written and broadcastDevices
\* is entered
UpsertOk(p) ==
    /\ pc[p] = "upsert"
    /\ ~CtxDone(p)
    /\ nCommit' = nCommit + 1
    /\ store' = [store EXCEPT ![msg[p].id] =
                    UpsertRow(@, ParamsOf(msg[p], existing[p]), now, nCommit + 1)]
    /\ mine' = [mine EXCEPT ![p] = nCommit + 1]
    /\ existing' = [existing EXCEPT ![p] = NoExisting]
    /\ pc' = [pc EXCEPT ![p] = "list"]
    /\ UNCHANGED <<now, connections, vpc, msg, snapshot, allConns, pending,
                   result, ctxExpired, elapsed, tickReady, cancelled, nMsgs,
                   last, catchup>>

\* UpsertErr without the return after the log line
UpsertErrBroadcasts(p) ==
    /\ pc[p] = "upsert"
    /\ pc' = [pc EXCEPT ![p] = "list"]
    /\ existing' = [existing EXCEPT ![p] = NoExisting]
    /\ UNCHANGED <<now, store, nCommit, connections, vpc, msg, mine, snapshot,
                   allConns, pending, result, ctxExpired, elapsed, tickReady, cancelled,
                   nMsgs, last, catchup>>

\* UpsertErr that removes the record it could not update
UpsertErrDeletes(p) ==
    /\ pc[p] = "upsert"
    /\ pc' = [pc EXCEPT ![p] = "upsertFailed"]
    /\ existing' = [existing EXCEPT ![p] = NoExisting]
    /\ store' = [store EXCEPT ![msg[p].id] = NoRow]
    /\ UNCHANGED <<now, nCommit, connections, vpc, msg, mine, snapshot,
                   allConns, pending, result, ctxExpired, elapsed, tickReady, cancelled,
                   nMsgs, last, catchup>>

\* s.queries.UpsertDevice returns an error: nothing is written
UpsertErr(p) ==
    /\ pc[p] = "upsert"
    /\ pc' = [pc EXCEPT ![p] = "upsertFailed"]
    /\ existing' = [existing EXCEPT ![p] = NoExisting]
    /\ UNCHANGED <<now, store, nCommit, connections, vpc, msg, mine, snapshot,
                   allConns, pending, result, ctxExpired, elapsed, tickReady, cancelled,
                   nMsgs, last, catchup>>

\* slog.Error(...); return, after a failed store call
LogReturn(w) ==
    /\ pc[w] \in {"upsertFailed", "listFailed", "deleteFailed"}
    /\ Return(w)
    /\ UNCHANGED <<now, store, nCommit, connections, vpc, tickReady, cancelled,
                   nMsgs, last, catchup>>

\* ---------------------------------------------------- snapshot broadcast
\* broadcastDevices: s.queries.ListDevices succeeds
ListOk(w) ==
    /\ pc[w] = "list"
    /\ ~CtxDone(w)
    /\ \E s \in Listings(store) : snapshot' = [snapshot EXCEPT ![w] = s]
    /\ pc' = [pc EXCEPT ![w] = "fanout"]
    /\ UNCHANGED <<now, store, nCommit, connections, vpc, msg, existing, mine,
                   allConns, pending, result, ctxExpired, elapsed, tickReady, cancelled, nMsgs,
                   last, catchup>>

\* broadcastDevices: s.queries.ListDevices fails
ListErr(w) ==
    /\ pc[w] = "list"
    /\ pc' = [pc EXCEPT ![w] = "listFailed"]
    /\ UNCHANGED <<now, store, nCommit, connections, vpc, msg, existing, mine,
                   snapshot, allConns, pending, result, ctxExpired, elapsed, tickReady,
                   cancelled, nMsgs, last, catchup>>

\* Collect that takes the connections of the group "browsers" only
CollectOneGroup(w) ==
    /\ pc[w] = "fanout"
    /\ allConns' = [allConns EXCEPT ![w] = Members(connections, "browsers")]
    /\ pending' = [pending EXCEPT ![w] = Members(connections, "browsers")]
    /\ result' = [result EXCEPT ![w] = NoResult]
    /\ pc' = [pc EXCEPT ![w] = "wait"]
    /\ UNCHANGED <<now, store, nCommit, connections, vpc, msg, existing, mine,
                   snapshot, ctxExpired, elapsed, tickReady, cancelled, nMsgs,
                   last, catchup>>

\* BroadcastAll lines 67-89: collect the connections under the read lock,
\* release it, start one goroutine per connection
Collect(w) ==
    /\ pc[w] = "fanout"
    /\ allConns' = [allConns EXCEPT ![w] = AllConns(connections)]
    /\ pending' = [pending EXCEPT ![w] = AllConns(connections)]
    /\ result' = [result EXCEPT ![w] = NoResult]
    /\ pc' = [pc EXCEPT ![w] = "wait"]
    /\ UNCHANGED <<now, store, nCommit, connections, vpc, msg, existing, mine,
                   snapshot, ctxExpired, elapsed, tickReady, cancelled, nMsgs,
                   last, catchup>>

\* the read lock held until BroadcastAll returns (defer cm.mutex.RUnlock())
ReadLockedToReturn == {w \in Workers : pc[w] \in {"collect", "wait"}}

\* the workers between cm.mutex.RLock() and cm.mutex.RUnlock() of BroadcastAll
ReadLocked == {w \in Workers : pc[w] = "collect"}

\* BroadcastAll line 67: cm.mutex.RLock() is granted
CollectLock(w) ==
    /\ pc[w] = "fanout"
    /\ pc' = [pc EXCEPT ![w] = "collect"]
    /\ UNCHANGED <<now, store, nCommit, connections, vpc, msg, existing, mine,
                   snapshot, allConns, pending, result, ctxExpired, elapsed, tickReady,
                   cancelled, nMsgs, last, catchup>>

\* BroadcastAll lines 68-89: the connections are collected, the lock is
\* released and one goroutine per connection is started
CollectUnlock(w) ==
    /\ pc[w] = "collect"
    /\ allConns' = [allConns EXCEPT ![w] = AllConns(connections)]
    /\ pending' = [pending EXCEPT ![w] = AllConns(connections)]
    /\ result' = [result EXCEPT ![w] = NoResult]
    /\ pc' = [pc EXCEPT ![w] = "wait"]
    /\ UNCHANGED <<now, store, nCommit, connections, vpc, msg, existing, mine,
                   snapshot, ctxExpired, elapsed, tickReady, cancelled, nMsgs,
                   last, catchup>>

\* what conn.Write can return to the goroutine writing to viewer v; "err"
\* is any error, the write's own 5 s deadline included
WriteOutcomes(w, v) ==
    {"err"}
    \cup (IF WriteCtxDone(w) \/ vpc[v] = "closed" THEN {} ELSE {"ok"})

\* WriteViewer as a loop without goroutines: one write after the other
WriteViewerInOrder(w, v) ==
    /\ pc[w] = "wait"
    /\ v \in pending[w]
    /\ v = CHOOSE x \in pending[w] : TRUE
    /\ \E o \in WriteOutcomes(w, v) :
          /\ result' = [result EXCEPT ![w][v] = o]
          /\ last' = IF o = "ok"
                     THEN [last EXCEPT ![v] = broadcastData(snapshot[w])]
                     ELSE last
    /\ pending' = [pending EXCEPT ![w] = @ \ {v}]
    /\ UNCHANGED <<now, store, nCommit, connections, vpc, pc, msg, existing,
                   mine, snapshot, allConns, ctxExpired, elapsed, tickReady, cancelled,
                   nMsgs, catchup>>

\* WriteViewer that drops the connection from the registry when the write fails
WriteViewerEvicts(w, v) ==
    /\ pc[w] = "wait"
    /\ v \in pending[w]
    /\ \E o \in WriteOutcomes(w, v) :
          /\ result' = [result EXCEPT ![w][v] = o]
          /\ connections' = IF o = "err" THEN Remove(connections, "browsers", v)
                            ELSE connections
          /\ last' = IF o = "ok"
                     THEN [last EXCEPT ![v] = broadcastData(snapshot[w])]
                     ELSE last
    /\ pending' = [pending EXCEPT ![w] = @ \ {v}]
    /\ UNCHANGED <<now, store, nCommit, vpc, pc, msg, existing, mine, snapshot,
                   allConns, ctxExpired, elapsed, tickReady, cancelled, nMsgs, catchup>>

\* one per-viewer goroutine of BroadcastAll finishes its conn.Write
WriteViewer(w, v) ==
    /\ pc[w] = "wait"
    /\ v \in pending[w]
    /\ \E o \in WriteOutcomes(w, v) :
          /\ result' = [result EXCEPT ![w][v] = o]
          /\ last' = IF o = "ok"
                     THEN [last EXCEPT ![v] = broadcastData(snapshot[w])]
                     ELSE last
    /\ pending' = [pending EXCEPT ![w] = @ \ {v}]
    /\ UNCHANGED <<now, store, nCommit, connections, vpc, pc, msg, existing,
                   mine, snapshot, allConns, ctxExpired, elapsed, tickReady, cancelled,
                   nMsgs, catchup>>

\* BroadcastReturn without wg.Wait(): BroadcastAll returns once its
\* goroutines are started
BroadcastReturnNoWait(w) ==
    /\ pc[w] = "wait"
    /\ Return(w)
    /\ UNCHANGED <<now, store, nCommit, connections, vpc, tickReady, cancelled,
                   nMsgs, last, catchup>>

\* wg.Wait() returns; BroadcastAll, broadcastDevices and the caller return
BroadcastReturn(w) ==
    /\ pc[w] = "wait"
    /\ pending[w] = {}
    /\ Return(w)
    /\ UNCHANGED <<now, store, nCommit, connections, vpc, tickReady, cancelled,
                   nMsgs, last, catchup>>

\* ----------------------------------------------------- Staleness sweeper
\* the runtime ticker puts a tick into ticker.C (buffer of one)
TickerFire ==
    /\ ~tickReady
    /\ pc[Sweeper] # "exited"
    /\ tickReady' = TRUE
    /\ UNCHANGED <<now, store, nCommit, connections, vpc, pc, msg, existing,
                   mine, snapshot, allConns, pending, result, ctxExpired, elapsed, cancelled, nMsgs,
                   last, catchup>>

\* the owner of the lifecycle context cancels it
Cancel ==
    /\ ~cancelled
    /\ cancelled' = TRUE
    /\ UNCHANGED <<now, store, nCommit, connections, vpc, pc, msg, existing,
                   mine, snapshot, allConns, pending, result, ctxExpired, elapsed, tickReady, nMsgs,
                   last, catchup>>

\* select, case <-ctx.Done(): return
SelectDone ==
    /\ pc[Sweeper] = "select"
    /\ cancelled
    /\ pc' = [pc EXCEPT ![Sweeper] = "exited"]
    /\ tickReady' = FALSE
    /\ UNCHANGED <<now, store, nCommit, connections, vpc, msg, existing, mine,
                   snapshot, allConns, pending, result, ctxExpired, elapsed, cancelled, nMsgs,
                   last, catchup>>

\* select, case <-ticker.C: a sweep tick starts with its own 5 s context
SelectTick ==
    /\ pc[Sweeper] = "select"
    /\ tickReady
    /\ tickReady' = FALSE
    /\ pc' = [pc EXCEPT ![Sweeper] = "delete"]
    /\ ctxExpired' = [ctxExpired EXCEPT ![Sweeper] = FALSE]
    /\ elapsed' = [elapsed EXCEPT ![Sweeper] = NoTime]
    /\ UNCHANGED <<now, store, nCommit, connections, vpc, msg, existing, mine,
                   snapshot, allConns, pending, result, cancelled, nMsgs,
                   last, catchup>>

\* s.queries.DeleteStaleDevices succeeds: broadcastDevices is entered
DeleteOk ==
    /\ pc[Sweeper] = "delete"
    /\ ~CtxDone(Sweeper)
    /\ store' = DeleteStale(store, now)
    /\ pc' = [pc EXCEPT ![Sweeper] = "list"]
    /\ UNCHANGED <<now, nCommit, connections, vpc, msg, existing, mine, snapshot,
                   allConns, pending, result, ctxExpired, elapsed, tickReady, cancelled, nMsgs,
                   last, catchup>>

\* DeleteErr that goes on to broadcastDevices after the log line
DeleteErrBroadcasts ==
    /\ pc[Sweeper] = "delete"
    /\ pc' = [pc EXCEPT ![Sweeper] = "list"]
    /\ UNCHANGED <<now, store, nCommit, connections, vpc, msg, existing, mine,
                   snapshot, allConns, pending, result, ctxExpired, elapsed, tickReady,
                   cancelled, nMsgs, last, catchup>>

\* s.queries.DeleteStaleDevices fails
DeleteErr ==
    /\ pc[Sweeper] = "delete"
    /\ pc' = [pc EXCEPT ![Sweeper] = "deleteFailed"]
    /\ UNCHANGED <<now, store, nCommit, connections, vpc, msg, existing, mine,
                   snapshot, allConns, pending, result, ctxExpired, elapsed, tickReady,
                   cancelled, nMsgs, last, catchup>>

\* ---------------------------------------------------------- environment
\* handleWebSocket: a.cm.Add("browsers", conn)
Join(v) ==
    /\ vpc[v] = "new"
    /\ ReadLocked = {}
    /\ connections' = Add(connections, "browsers", v)
    /\ vpc' = [vpc EXCEPT ![v] = "joined"]
    /\ catchup' = [catchup EXCEPT ![v] = [at |-> "load", data |-> NoData]]
    /\ UNCHANGED <<now, store, nCommit, pc, msg, existing, mine, snapshot,
                   allConns, pending, result, ctxExpired, elapsed, tickReady, cancelled, nMsgs,
                   last>>

\* handleWebSocket: snapshot, err := a.subscriber.LoadAndBroadcast(ctx)
\* returns the bytes for the rows of the store
LoadSnapshot(v) ==
    /\ vpc[v] = "joined"
    /\ catchup[v].at = "load"
    /\ \E s \in Listings(store) :
          catchup' = [catchup EXCEPT ![v] =
                         [at |-> "write", data |-> LoadAndBroadcast(s)]]
    /\ UNCHANGED <<now, store, nCommit, connections, vpc, pc, msg, existing,
                   mine, snapshot, allConns, pending, result, ctxExpired, elapsed,
                   tickReady, cancelled, nMsgs, last>>

\* LoadFailed that returns from the handler instead of entering the read loop
LoadFailedReturns(v) ==
    /\ vpc[v] = "joined"
    /\ catchup[v].at = "load"
    /\ ReadLocked = {}
    /\ connections' = Remove(connections, "browsers", v)
    /\ vpc' = [vpc EXCEPT ![v] = "closed"]
    /\ catchup' = [catchup EXCEPT ![v] = NoCatchup]
    /\ last' = [last EXCEPT ![v] = NoData]
    /\ UNCHANGED <<now, store, nCommit, pc, msg, existing, mine, snapshot,
                   allConns, pending, result, ctxExpired, elapsed, tickReady,
                   cancelled, nMsgs>>

\* handleWebSocket: LoadAndBroadcast returns an error; the handler logs it
\* and enters its read loop
LoadFailed(v) ==
    /\ vpc[v] = "joined"
    /\ catchup[v].at = "load"
    /\ catchup' = [catchup EXCEPT ![v] = [at |-> "read", data |-> NoData]]
    /\ UNCHANGED <<now, store, nCommit, connections, vpc, pc, msg, existing,
                   mine, snapshot, allConns, pending, result, ctxExpired, elapsed,
                   tickReady, cancelled, nMsgs, last>>

\* handleWebSocket: conn.Write(writeCtx, websocket.MessageText, snapshot)
\* delivers the catch-up snapshot or fails; the handler enters its read loop
WriteSnapshot(v) ==
    /\ vpc[v] = "joined"
    /\ catchup[v].at = "write"
    /\ \E o \in {"ok", "err"} :
          last' = IF o = "ok" THEN [last EXCEPT ![v] = catchup[v].data]
                  ELSE last
    /\ catchup' = [catchup EXCEPT ![v] = [at |-> "read", data |-> NoData]]
    /\ UNCHANGED <<now, store, nCommit, connections, vpc, pc, msg, existing,
                   mine, snapshot, allConns, pending, result, ctxExpired, elapsed,
                   tickReady, cancelled, nMsgs>>

\* handleWebSocket returns (its catch-up or a read failed): the deferred
\* a.cm.Remove("browsers", conn) and conn.CloseNow(); nothing is received on
\* the connection any more
Leave(v) ==
    /\ vpc[v] = "joined"
    /\ ReadLocked = {}
    /\ connections' = Remove(connections, "browsers", v)
    /\ vpc' = [vpc EXCEPT ![v] = "closed"]
    /\ catchup' = [catchup EXCEPT ![v] = NoCatchup]
    /\ last' = [last EXCEPT ![v] = NoData]
    /\ UNCHANGED <<now, store, nCommit, pc, msg, existing, mine, snapshot,
                   allConns, pending, result, ctxExpired, elapsed, tickReady, cancelled, nMsgs>>

\* handleWebSocket: conn.Read in the receive loop returns an error (the
\* peer closed, or nothing arrived for 60 s); the handler returns and its
\* deferred Remove and CloseNow run
ReadError(v) ==
    /\ catchup[v].at = "read"
    /\ Leave(v)

\* the group labels callers of the registry pass; the server itself passes
\* "browsers" only
Names == {"browsers", "admins"}

\* a caller runs cm.Add(name, conn) for a connection of its own; the whole
\* body runs under cm.mutex.Lock(), granted when no reader holds the lock
AddCall(name, v) ==
    /\ vpc[v] = "new"
    /\ ReadLocked = {}
    /\ connections' = Add(connections, name, v)
    /\ vpc' = [vpc EXCEPT ![v] = "joined"]
    /\ UNCHANGED <<now, store, nCommit, pc, msg, existing, mine, snapshot,
                   allConns, pending, result, ctxExpired, elapsed, tickReady, cancelled,
                   nMsgs, last, catchup>>

\* a caller runs cm.Remove(name, conn) and closes the connection: for a
\* connection it added, under the name it added it with; for one that is
\* not in the registry, under any name
RemoveCall(name, v) ==
    /\ vpc[v] = "joined" => v \in Members(connections, name)
    /\ ReadLocked = {}
    /\ connections' = Remove(connections, name, v)
    /\ vpc' = [vpc EXCEPT ![v] = IF @ = "joined" THEN "closed" ELSE @]
    /\ UNCHANGED <<now, store, nCommit, pc, msg, existing, mine, snapshot,
                   allConns, pending, result, ctxExpired, elapsed, tickReady, cancelled,
                   nMsgs, last, catchup>>

\* the workers that hold a context
InFlight == {w \in Workers : pc[w] \notin {"idle", "dropped", "select", "exited"}}

\* the clock advances by d hours: every context in flight passes its deadline
AdvanceTime(d) ==
    /\ now + d <= MaxNow
    /\ now' = now + d
    /\ ctxExpired' = [w \in Workers |-> w \in InFlight]
    /\ UNCHANGED <<elapsed, store, nCommit, connections, vpc, pc, msg, existing, mine,
                   snapshot, allConns, pending, result, tickReady, cancelled, nMsgs,
                   last, catchup>>

\* one second passes: the contexts in flight age, and a handler's context
\* that reaches its five seconds is done
Elapse ==
    /\ \E w \in InFlight :
          elapsed[w].ctx < CtxSecs \/ (pc[w] = "wait" /\ elapsed[w].fan < FanoutSecs)
    /\ elapsed' = [w \in Workers |->
                      IF w \notin InFlight THEN elapsed[w]
                      ELSE [ctx |-> IF elapsed[w].ctx < CtxSecs
                                    THEN elapsed[w].ctx + 1 ELSE CtxSecs,
                            fan |-> IF pc[w] = "wait" /\ elapsed[w].fan < FanoutSecs
                                    THEN elapsed[w].fan + 1 ELSE elapsed[w].fan]]
    /\ ctxExpired' = [w \in Workers |->
                         ctxExpired[w] \/ (w \in InFlight /\ elapsed'[w].ctx >= CtxSecs)]
    /\ UNCHANGED <<now, store, nCommit, connections, vpc, pc, msg, existing, mine,
                   snapshot, allConns, pending, result, tickReady, cancelled,
                   nMsgs, last, catchup>>

\* ------------------------------------------------------- specifications
\* the broker delivers one of the packets K on goroutine p
Ingest(P, K) ==
    \/ \E p \in P, topic \in Topics, pkt \in K : HandleMessage(p, topic, pkt)
    \/ \E p \in P : DropReturn(p)

Reconcile(P) ==
    \/ \E p \in P : GetDevice(p)
    \/ \E p \in P : UpsertOk(p)
    \/ \E p \in P : UpsertErr(p)

Broadcast(W) ==
    \/ \E w \in W : ListOk(w)
    \/ \E w \in W : ListErr(w)
    \/ \E w \in W : Collect(w)
    \/ \E w \in W : BroadcastReturn(w)
    \/ \E w \in W : LogReturn(w)

Writes(W) == \E w \in W, v \in Viewers : WriteViewer(w, v)

Sweep ==
    \/ TickerFire
    \/ SelectTick
    \/ DeleteOk
    \/ DeleteErr

Shutdown ==
    \/ Cancel
    \/ SelectDone

Registry ==
    \/ \E v \in Viewers : Join(v)
    \/ \E v \in Viewers : Leave(v)

Catchup ==
    \/ \E v \in Viewers : LoadSnapshot(v)
    \/ \E v \in Viewers : LoadFailed(v)
    \/ \E v \in Viewers : WriteSnapshot(v)

Clock == \E d \in TimeSteps : AdvanceTime(d)

\* the whole program
Next ==
    \/ Ingest(Procs, Packets)
    \/ Reconcile(Procs)
    \/ Broadcast(Workers)
    \/ Writes(Workers)
    \/ Sweep
    \/ Shutdown
    \/ Registry
    \/ Catchup
    \/ Clock

Spec == Init /\ [][Next]_vars

\* packets of one sender: one position fix, the telemetry payloads
From10 == {k \in Packets : k \notin {Malformed, Flat} /\ k.from = 10}
Fixes == {k \in Packets : k \notin {Malformed, Flat} /\ k.type = "position"
                          /\ k.payload # Malformed /\ k.payload.latitude_i # 0}

OneFix == {k \in Fixes \cap From10 : k.payload.latitude_i # 0}
Beats == {k \in From10 : k.type = "telemetry" /\ k.payload # Malformed
                         /\ k.payload.battery_level = 100}

\* one broker goroutine: messages are handled one after the other
NextSequential ==
    \/ Ingest({"g1"}, Packets)
    \/ Reconcile({"g1"})
    \/ Broadcast({"g1"})

SpecSequential == Init /\ [][NextSequential]_vars

\* the reconcile path alone: two broker goroutines, every packet, no viewer
\* joined, the sweeper not started, within one hour
NextReconcile ==
    \/ Ingest(Procs, Packets)
    \/ Reconcile(Procs)
    \/ Broadcast(Procs)

SpecReconcile == Init /\ [][NextReconcile]_vars

\* the sweeper beside one broker goroutine that delivers position fixes of
\* both senders, over two days of clock
NextSweep ==
    \/ Ingest({"g1"}, Fixes)
    \/ Reconcile({"g1"})
    \/ Broadcast(Workers)
    \/ Sweep
    \/ Shutdown
    \/ Clock

SpecSweep == Init /\ [][NextSweep]_vars

\* the fan-out: two broker goroutines deliver a fix and a battery report of
\* one sender while viewers join and leave
NextFanout ==
    \/ Ingest(Procs, OneFix \cup Beats)
    \/ Reconcile(Procs)
    \/ Broadcast(Procs)
    \/ Writes(Procs)
    \/ Registry

SpecFanout == Init /\ [][NextFanout]_vars

\* two broker goroutines reconciling the battery reports of one sender beside
\* the sweeper and the clock
NextRace ==
    \/ Ingest(Procs, Beats)
    \/ Reconcile(Procs)
    \/ Broadcast(Workers)
    \/ Sweep
    \/ Clock

SpecRace == Init /\ [][NextRace]_vars

\* handleWebSocket of one connection, from Accept to its return
Handler(v) ==
    \/ Join(v)
    \/ LoadSnapshot(v)
    \/ LoadFailed(v)
    \/ WriteSnapshot(v)
    \/ Leave(v)

\* a day passes, once
NextDay == now = 0 /\ AdvanceTime(24)

\* the join path: one viewer connects and gets its catch-up snapshot while
\* two broker goroutines reconcile and broadcast position fixes of both
\* senders, on one day or the next
NextJoin ==
    \/ Ingest(Procs, Fixes)
    \/ Reconcile(Procs)
    \/ Broadcast(Procs)
    \/ Writes(Procs)
    \/ Handler("v1")
    \/ NextDay

SpecJoin == Init /\ [][NextJoin]_vars

\* the join path beside one broker goroutine: the viewer's handler lists
\* the store while position fixes of both senders are reconciled and
\* broadcast one after the other, on one day or the next
NextCatchup ==
    \/ Ingest({"g1"}, Fixes)
    \/ Reconcile({"g1"})
    \/ Broadcast({"g1"})
    \/ Writes({"g1"})
    \/ Handler("v1")
    \/ NextDay

SpecCatchup == Init /\ [][NextCatchup]_vars

\* battery reports of one sender
Reports == {k \in From10 : k.type = "telemetry" /\ k.payload # Malformed
                           /\ k.payload.battery_level > 0}

\* a run in which nothing fails: the viewers connect and get their catch-up
\* snapshot before the first message arrives and stay; every store call and
\* every write to a viewer succeeds
NextQuiet ==
    \/ \E v \in Viewers : nMsgs = 0 /\ Join(v)
    \/ \E v \in Viewers : nMsgs = 0 /\ LoadSnapshot(v)
    \/ \E v \in Viewers : nMsgs = 0 /\ WriteSnapshot(v) /\ last'[v] # NoData
    \/ Ingest(Procs, Reports)
    \/ \E p \in Procs : GetDevice(p) /\ existing'[p].err # "other"
    \/ \E p \in Procs : UpsertOk(p)
    \/ \E p \in Procs : ListOk(p)
    \/ \E p \in Procs : Collect(p)
    \/ \E p \in Procs, v \in Viewers : WriteViewer(p, v) /\ result'[p][v] = "ok"
    \/ \E p \in Procs : BroadcastReturn(p)

SpecQuiet == Init /\ [][NextQuiet]_vars

\* the life of one sender's record: one broker goroutine delivers its fix
\* and its battery report, a viewer joins and leaves, the sweeper runs and
\* the clock goes on to the third day
NextLife ==
    \/ Ingest({"g1"}, OneFix \cup Beats)
    \/ Reconcile({"g1"})
    \/ Broadcast(Workers)
    \/ Writes(Workers)
    \/ Sweep
    \/ Join("v1")
    \/ Leave("v1")
    \/ AdvanceTime(25)

SpecLife == Init /\ [][NextLife]_vars

\* a record an earlier run of the server left in the database file
Kept ==
    [id |-> nodeID(10), lat |-> ZeroFloat, lon |-> Degrees(145058000),
     alt |-> 0, speed |-> 0, course |-> 0, sats |-> 0, hdop |-> 0,
     battery_mv |-> 50, rssi |-> 0, snr |-> 0, online |-> 1, last_seen |-> 0,
     created_at |-> 0, ver |-> 0]

\* the server is started on a database file that holds the record Kept
InitRestart ==
    /\ now = 0
    /\ store = [id \in Ids |-> IF id = Kept.id THEN Kept ELSE NoRow]
    /\ nCommit = 0
    /\ connections = [n \in {} |-> <<>>]
    /\ vpc = [v \in Viewers |-> "new"]
    /\ pc = [w \in Workers |-> Home(w)]
    /\ msg = [p \in Procs |-> NoMsg]
    /\ existing = [p \in Procs |-> NoExisting]
    /\ mine = [p \in Procs |-> 0]
    /\ snapshot = [w \in Workers |-> <<>>]
    /\ allConns = [w \in Workers |-> {}]
    /\ pending = [w \in Workers |-> {}]
    /\ result = [w \in Workers |-> NoResult]
    /\ ctxExpired = [w \in Workers |-> FALSE]
    /\ tickReady = FALSE
    /\ cancelled = FALSE
    /\ nMsgs = 0
    /\ last = [v \in Viewers |-> NoData]
    /\ catchup = [v \in Viewers |-> NoCatchup]
    /\ elapsed = [w \in Workers |-> NoTime]

\* one broker goroutine delivers the fix and the battery report of the
\* sender whose record the database already holds
NextTwice ==
    \/ Ingest({"g1"}, OneFix \cup Beats)
    \/ Reconcile({"g1"})
    \/ Broadcast({"g1"})

SpecTwice == InitRestart /\ [][NextTwice]_vars

\* callers add and remove connections under the group labels Names while
\* one broker goroutine reconciles a fix and broadcasts
NextRegistry ==
    \/ Ingest({"g1"}, OneFix)
    \/ Reconcile({"g1"})
    \/ Broadcast({"g1"})
    \/ Writes({"g1"})
    \/ \E n \in Names, v \in Viewers : AddCall(n, v)
    \/ \E n \in Names, v \in Viewers : RemoveCall(n, v)

SpecRegistry == Init /\ [][NextRegistry]_vars

\* two broker goroutines broadcast, taking and releasing the registry's
\* read lock in separate steps, while callers add and remove connections
NextLock ==
    \/ Ingest(Procs, OneFix)
    \/ Reconcile(Procs)
    \/ \E w \in Procs : ListOk(w)
    \/ \E w \in Procs : ListErr(w)
    \/ \E w \in Procs : CollectLock(w)
    \/ \E w \in Procs : CollectUnlock(w)
    \/ Writes(Procs)
    \/ \E w \in Procs : BroadcastReturn(w)
    \/ \E w \in Procs : LogReturn(w)
    \/ \E v \in Viewers : AddCall("browsers", v)
    \/ \E v \in Viewers : RemoveCall("browsers", v)

SpecLock == Init /\ [][NextLock]_vars

\* one broker goroutine reconciles a fix and broadcasts it to the viewers
\* that joined, while the seconds pass
NextBudget ==
    \/ Ingest({"g1"}, OneFix)
    \/ Reconcile({"g1"})
    \/ Broadcast({"g1"})
    \/ Writes({"g1"})
    \/ \E v \in Viewers : AddCall("browsers", v)
    \/ Elapse

SpecBudget == Init /\ [][NextBudget]_vars

\* viewers connect, catch up and disconnect while one broker goroutine
\* reconciles a fix and broadcasts
NextViewer ==
    \/ Ingest({"g1"}, OneFix)
    \/ Reconcile({"g1"})
    \/ Broadcast({"g1"})
    \/ Writes({"g1"})
    \/ \E v \in Viewers : Join(v)
    \/ Catchup
    \/ \E v \in Viewers : ReadError(v)

SpecViewer == Init /\ [][NextViewer]_vars

\* one broker goroutine: fixes and battery reports of both senders and a
\* fix that names no sender, on the topics of either node
NextIdentity ==
    \/ \E topic \in NodeTopics, pkt \in Fixes \cup Beats \cup {NoFromFix} :
          HandleMessage("g1", topic, pkt)
    \/ DropReturn("g1")
    \/ Reconcile({"g1"})
    \/ Broadcast({"g1"})

SpecIdentity == Init /\ [][NextIdentity]_vars

\* SpecRegistry with the scheduling of the Go runtime: a goroutine of
\* BroadcastAll whose conn.Write has completed or timed out runs on, and so
\* does the caller once wg.Wait() can return
SpecTerminate ==
    /\ Init /\ [][NextRegistry]_vars
    /\ \A w \in Procs : WF_vars(\E v \in Viewers : WriteViewer(w, v))
    /\ \A w \in Procs : WF_vars(BroadcastReturn(w))

\* ================================================================ claims

\* the fields handlePosition takes from its payload, and the one
\* handleTelemetry takes
SamePosition(a, b) ==
    /\ a.lat = b.lat /\ a.lon = b.lon /\ a.alt = b.alt
    /\ a.speed = b.speed /\ a.sats = b.sats

SameRest(a, b) ==
    /\ a.id = b.id /\ a.course = b.course /\ a.hdop = b.hdop
    /\ a.rssi = b.rssi /\ a.snr = b.snr /\ a.created_at = b.created_at

\* C1: with messages handled one after the other, a committed telemetry
\* reconcile of an identity that has a stored record leaves lat, lon, alt,
\* speed and sats of the record unchanged, a committed position reconcile
\* leaves battery unchanged, and beside the carried fields only online and
\* last_seen change.
C1_PartialUpdatePreserves ==
    [][\A p \in Procs :
        (pc[p] = "upsert" /\ pc'[p] = "list" /\ HasRow(store, msg[p].id)) =>
            LET old == store[msg[p].id]
                new == store'[msg[p].id]
            IN /\ msg[p].type = "telemetry" => SamePosition(new, old)
               /\ msg[p].type = "position" => new.battery_mv = old.battery_mv
               /\ SameRest(new, old)
      ]_vars

\* the position fields of a fix, as stored
CarriesFix(row, f) ==
    /\ row.lat = Degrees(f.latitude_i) /\ row.lon = Degrees(f.longitude_i)
    /\ row.alt = f.altitude /\ row.speed = f.ground_speed
    /\ row.sats = f.sats_in_view

\* C2: when a position reconcile and a telemetry reconcile of one identity
\* run on two goroutines and the second commits right after the first, having
\* read the prior record without a store error, the stored record carries
\* the position fields of the position update and the battery of the
\* telemetry update.
C2_NoLostUpdate ==
    [][\A p, q \in Procs :
        (/\ p # q
         /\ pc[q] = "upsert" /\ pc'[q] = "list"
         /\ existing[q].err # "other"
         /\ mine[p] > 0
         /\ msg[p].id = msg[q].id
         /\ msg[p].type # msg[q].type
         /\ HasRow(store, msg[p].id)
         /\ store[msg[p].id].ver = mine[p])
        => LET row == store'[msg[q].id]
               fix == IF msg[p].type = "position" THEN msg[p].payload
                      ELSE msg[q].payload
               tel == IF msg[p].type = "telemetry" THEN msg[p].payload
                      ELSE msg[q].payload
           IN /\ CarriesFix(row, fix)
              /\ row.battery_mv = Int64OfTenths(tel.battery_level)
      ]_vars

\* C3: a failed UpsertDevice writes nothing, and the handler then returns
\* without a second write, without listing the devices and without a
\* broadcast.
C3_FailedUpsertAbandons ==
    [][\A p \in Procs :
        /\ (pc[p] = "upsert" /\ pc'[p] # "upsert" /\ nCommit' = nCommit)
              => (pc'[p] = "upsertFailed" /\ store' = store)
        /\ (pc[p] = "upsertFailed" /\ pc'[p] # "upsertFailed")
              => /\ pc'[p] = "idle"
                 /\ store' = store
                 /\ snapshot[p] = <<>> /\ allConns[p] = {}
                 /\ \A v \in Viewers : result[p][v] = "none"
      ]_vars

\* a goroutine whose UpsertDevice failed while the identity has a record
C3_Witness ==
    \E p \in Procs : pc[p] = "upsertFailed" /\ HasRow(store, msg[p].id)

\* C4 as stated: a reconcile that has committed returns only out of a
\* finished BroadcastAll.
C4_CommitThenBroadcastAll ==
    [][\A p \in Procs :
        (mine[p] > 0 /\ pc[p] # "idle" /\ pc'[p] = "idle") => pc[p] = "wait"
      ]_vars

\* C4 as amended: a commit enters broadcastDevices, which calls ListDevices;
\* if the listing succeeds BroadcastAll is called with it for the viewers
\* joined at that time and the handler returns after every write finished;
\* if the listing fails the handler returns without a broadcast.
C4_CommitThenListThenBroadcast ==
    [][\A p \in Procs :
        /\ (mine[p] = 0 /\ mine'[p] > 0) => pc'[p] = "list"
        /\ (mine[p] > 0 /\ pc[p] = "list" /\ pc'[p] # "list")
              => \/ pc'[p] = "fanout" /\ snapshot'[p] \in Listings(store)
                 \/ pc'[p] = "listFailed" /\ snapshot'[p] = <<>>
        /\ (pc[p] = "fanout" /\ pc'[p] # "fanout")
              => /\ pc'[p] = "wait"
                 /\ allConns'[p] = AllConns(connections)
                 /\ pending'[p] = allConns'[p]
                 /\ snapshot'[p] = snapshot[p]
        /\ (mine[p] > 0 /\ pc[p] # "idle" /\ pc'[p] = "idle")
              => \/ pc[p] = "wait" /\ pending[p] = {}
                 \/ pc[p] = "listFailed"
      ]_vars

\* a committed reconcile inside BroadcastAll with both viewers collected
C4_Witness ==
    \E p \in Procs :
        /\ pc[p] = "wait" /\ mine[p] > 0
        /\ allConns[p] = Viewers
        /\ Len(snapshot[p]) > 0

\* C5: the snapshot a reconcile broadcasts holds a record of the reconciled
\* identity, written by this reconcile's commit or by a later commit; when it
\* is this reconcile's commit it carries the values the reconcile committed.
C5_SnapshotReflectsCommit ==
    \A p \in Procs :
        (pc[p] \in {"fanout", "wait"} /\ mine[p] > 0) =>
            \E i \in 1..Len(snapshot[p]) :
                LET r == snapshot[p][i]
                IN /\ r.id = msg[p].id
                   /\ r.ver >= mine[p]
                   /\ r.ver = mine[p] =>
                        /\ r.online = 1
                        /\ msg[p].type = "position"
                              => CarriesFix(r, msg[p].payload)
                        /\ msg[p].type = "telemetry"
                              => r.battery_mv
                                    = Int64OfTenths(msg[p].payload.battery_level)

\* a reconcile whose snapshot shows a later commit of the same identity
C5_Witness ==
    \E p \in Procs :
        /\ pc[p] = "fanout" /\ mine[p] > 0
        /\ \E i \in 1..Len(snapshot[p]) :
              snapshot[p][i].id = msg[p].id /\ snapshot[p][i].ver > mine[p]

\* C6: in a BroadcastAll every collected viewer is either still being written
\* to or has its result; each pending write can finish, and can be delivered
\* to an open connection, whatever the state of the other writes (one of them
\* failed, or hanging); and once no write is pending BroadcastAll returns.
C6_FanoutIsolation ==
    \A w \in Procs :
        pc[w] = "wait" =>
            /\ \A v \in allConns[w] : v \in pending[w] \/ result[w][v] # "none"
            /\ \A v \in pending[w] :
                  /\ ENABLED WriteViewer(w, v)
                  /\ (vpc[v] # "closed" /\ ~CtxDone(w))
                        => ENABLED (WriteViewer(w, v) /\ result'[w][v] = "ok")
            /\ pending[w] = {} => ENABLED BroadcastReturn(w)

\* one viewer's write failed and the other viewer's write was delivered
C6_Witness ==
    \E w \in Procs, v1, v2 \in Viewers :
        /\ pc[w] = "wait"
        /\ result[w][v1] = "err" /\ result[w][v2] = "ok"

\* C7: the registry changes only when a viewer's handler joins or leaves; no
\* step of BroadcastAll, whatever the outcome of a write, changes it.
C7_BroadcastKeepsRegistry ==
    [][/\ connections' # connections => \E v \in Viewers : vpc'[v] # vpc[v]
       /\ \A v \in Viewers :
            (v \in AllConns(connections) /\ v \notin AllConns(connections'))
                => (vpc[v] = "joined" /\ vpc'[v] = "closed")
      ]_vars

\* a viewer whose write failed is still in the registry
C7_Witness ==
    \E w \in Procs, v \in Viewers :
        /\ pc[w] = "wait" /\ result[w][v] = "err"
        /\ v \in AllConns(connections) /\ vpc[v] = "joined"

\* C8: the return of HandleMessage never waits for a viewer write: inside
\* BroadcastAll the return is possible whatever writes are pending.
C8_ReturnDoesNotWaitForViewers ==
    \A p \in Procs : pc[p] = "wait" => ENABLED BroadcastReturn(p)

\* C9: once the lifecycle context is cancelled no sweep tick starts.
C9_NoTickAfterCancel ==
    [][cancelled => ~(pc[Sweeper] = "select" /\ pc'[Sweeper] = "delete")]_vars

\* C10: a successful sweep removes every record last seen more than 48 hours
\* before it and keeps every other record as it was.
C10_SweepThreshold ==
    [][(pc[Sweeper] = "delete" /\ pc'[Sweeper] = "list") =>
          \A id \in Ids :
              IF HasRow(store, id) /\ now - store[id].last_seen > 48
              THEN store'[id] = NoRow
              ELSE store'[id] = store[id]
      ]_vars

\* a sweep at hour 49 that removed the record committed at hour 0
C10_Witness ==
    /\ pc[Sweeper] = "list" /\ now = 49 /\ nCommit > 0
    /\ \A id \in Ids : store[id] = NoRow

\* C11: a tick whose DeleteStaleDevices succeeded enters broadcastDevices
\* whether or not a record was deleted: ListDevices, then BroadcastAll for the
\* viewers joined at that time.  A tick whose DeleteStaleDevices failed
\* changes nothing, lists nothing, broadcasts nothing and does not call
\* DeleteStaleDevices again; the loop is back at its select, where the next
\* tick can be taken.
C11_SweepTickOutcome ==
    [][/\ (pc[Sweeper] = "delete" /\ pc'[Sweeper] # "delete")
            => \/ pc'[Sweeper] = "list" /\ store' = DeleteStale(store, now)
               \/ pc'[Sweeper] = "deleteFailed" /\ store' = store
       /\ (pc[Sweeper] = "list" /\ pc'[Sweeper] # "list")
            => \/ /\ pc'[Sweeper] = "fanout"
                  /\ snapshot'[Sweeper] \in Listings(store)
               \/ pc'[Sweeper] = "listFailed" /\ snapshot'[Sweeper] = <<>>
       /\ (pc[Sweeper] = "fanout" /\ pc'[Sweeper] # "fanout")
            => /\ pc'[Sweeper] = "wait"
               /\ allConns'[Sweeper] = AllConns(connections)
               /\ snapshot'[Sweeper] = snapshot[Sweeper]
       /\ (pc[Sweeper] = "deleteFailed" /\ pc'[Sweeper] # "deleteFailed")
            => /\ pc'[Sweeper] = "select"
               /\ store' = store
               /\ snapshot[Sweeper] = <<>> /\ allConns[Sweeper] = {}
               /\ \A v \in Viewers : result[Sweeper][v] = "none"
       /\ (pc[Sweeper] = "select" /\ tickReady) => ENABLED SelectTick
       /\ pc'[Sweeper] = "exited" => cancelled
      ]_vars

\* a tick that deleted nothing and broadcasts the record that is still there
C11_Witness ==
    /\ pc[Sweeper] = "wait"
    /\ Len(snapshot[Sweeper]) > 0
    /\ now >= StaleHours - 2

\* C12: for every store state and every order in which ListDevices returns
\* its rows, LoadAndBroadcast returns the bytes broadcastDevices passes to
\* BroadcastAll; the catch-up snapshot a joining viewer's handler loads is
\* such a message for the store at that instant: envelope type "devices", one
\* view per record, most recently seen first.
C12_JoinSnapshotIsBroadcastSnapshot ==
    [][/\ \A s \in Listings(store) : LoadAndBroadcast(s) = broadcastData(s)
       /\ \A v \in Viewers :
            (catchup[v].at = "load" /\ catchup'[v].at = "write") =>
                LET m == catchup'[v].data
                IN /\ m \in {broadcastData(s) : s \in Listings(store)}
                   /\ m.type = "devices"
                   /\ {m.data[i].id : i \in 1..Len(m.data)}
                         = {id \in Ids : HasRow(store, id)}
                   /\ \A i, j \in 1..Len(m.data) :
                         i < j => m.data[i].last_seen >= m.data[j].last_seen
      ]_vars

\* a handler holding a catch-up snapshot of two records seen on different days
C12_Witness ==
    \E v \in Viewers :
        /\ catchup[v].at = "write"
        /\ Len(catchup[v].data.data) = 2
        /\ catchup[v].data.data[1].last_seen > catchup[v].data.data[2].last_seen

\* the battery a goroutine's broadcast carries for an identity; -1 if the
\* broadcast has no view of it
BatteryIn(w, id) ==
    LET m == broadcastData(snapshot[w])
    IN IF \E i \in 1..Len(m.data) : m.data[i].id = id
       THEN LET k == CHOOSE i \in 1..Len(m.data) : m.data[i].id = id
            IN m.data[k].battery_level
       ELSE -1

\* C13: two goroutines reconcile telemetry of one identity, one with battery
\* 10 and one with battery 20, and commit in that order; once both have
\* their message for BroadcastAll, the stored battery is 20 and exactly one of
\* the two messages carries battery 20 for the identity.
C13_ExactlyOneBroadcastCarriesFinal ==
    \A p, q \in Procs :
        (/\ p # q
         /\ pc[p] \in {"fanout", "wait"} /\ pc[q] \in {"fanout", "wait"}
         /\ msg[p].type = "telemetry" /\ msg[q].type = "telemetry"
         /\ msg[p].id = msg[q].id
         /\ Int64OfTenths(msg[p].payload.battery_level) = 10
         /\ Int64OfTenths(msg[q].payload.battery_level) = 20
         /\ 0 < mine[p] /\ mine[p] < mine[q])
        => /\ store[msg[q].id].battery_mv = 20
           /\ Cardinality({w \in {p, q} : BatteryIn(w, msg[q].id) = 20}) = 1

\* C14: once every reconcile has returned from its broadcast, with no store
\* call and no write failed, every viewer that was connected from before the
\* first message holds as its last received message the snapshot of the store.
C14_QuiescentViewersShowStore ==
    (nCommit > 0 /\ \A p \in Procs : pc[p] = "idle") =>
        \A v \in Viewers :
            (vpc[v] = "joined" /\ catchup[v].at = "read") =>
                last[v] \in {broadcastData(s) : s \in Listings(store)}

\* the three kinds of message C15 is about
DropCase(topic, pkt) ==
    \/ ~isMeshtasticJSONTopic(topic)
    \/ pkt \in {Malformed, Flat}
    \/ pkt.payload = Malformed
    \/ /\ pkt.type = "position"
       /\ pkt.payload.latitude_i = 0 /\ pkt.payload.longitude_i = 0

\* C15: a message on an unrecognized topic, an undecodable packet or payload
\* and a position with latitude_i = 0 and longitude_i = 0 are dropped; a
\* HandleMessage call that drops its message reads and writes no record,
\* lists nothing, sends nothing to a viewer and then returns to the broker;
\* only other messages reach the store.
C15_SilentDrop ==
    [][\A p \in Procs :
        /\ \A topic \in Topics, pkt \in Packets :
              DropCase(topic, pkt) => Accept(topic, pkt) = NoMsg
        /\ (pc[p] = "idle" /\ pc'[p] # "idle") =>
              \/ /\ pc'[p] = "dropped"
                 /\ UNCHANGED <<store, nCommit, msg, existing, mine, snapshot,
                                allConns, pending, result, last>>
              \/ /\ pc'[p] = "get"
                 /\ msg'[p].type \in {"position", "telemetry"}
                 /\ msg'[p].payload # Malformed
                 /\ msg'[p].type = "position" =>
                       ~(/\ msg'[p].payload.latitude_i = 0
                         /\ msg'[p].payload.longitude_i = 0)
        /\ pc[p] = "dropped" => ENABLED DropReturn(p)
        /\ (pc[p] = "dropped" /\ pc'[p] # "dropped") =>
              /\ pc'[p] = "idle"
              /\ UNCHANGED <<store, nCommit, msg, existing, mine, snapshot,
                             allConns, pending, result, last>>
      ]_vars

\* a message is dropped while the store holds a record
C15_Witness ==
    \E p \in Procs : pc[p] = "dropped" /\ nCommit > 0

\* C16: a flat object published on devices/d1/status is accepted by
\* HandleMessage: the call goes on to the store with an update for d1.
C16_FlatShapeAccepted ==
    \A p \in Procs :
        (pc[p] = "idle" /\ nMsgs < MaxMsgs) =>
            ENABLED (/\ HandleMessage(p, <<"devices", "d1", "status">>, Flat)
                     /\ pc'[p] = "get"
                     /\ msg'[p].id = <<"d1">>)

\* C17: a commit of a position or telemetry reconcile stores online = 1 and
\* last_seen = the time of the commit; every stored record has online = 1,
\* whatever messages and sweep ticks came before.
C17_OnlineNeverDecreases ==
    [][/\ \A p \in Procs :
            (pc[p] = "upsert" /\ pc'[p] = "list") =>
                /\ store'[msg[p].id].online = 1
                /\ store'[msg[p].id].last_seen = now
       /\ \A id \in Ids : HasRow(store', id) => store'[id].online = 1
      ]_vars

\* a record committed on a later day over the record of the first day
C17_Witness ==
    \E id \in Ids :
        /\ HasRow(store, id)
        /\ store[id].ver = 2
        /\ store[id].last_seen > store[id].created_at

\* the records of the table
Rows(st) == {st[id] : id \in {i \in Ids : HasRow(st, i)}}

\* C18: the table never holds two records of one id, and ListDevices never
\* returns an id twice; a commit for an id without a record adds one record,
\* created at that time; a commit for an id with a record, also one whose
\* handler had found none, updates that record (its created_at stays) and
\* adds none; the records of other ids are left alone.
C18_OneRecordPerId ==
    [][/\ \A r1, r2 \in Rows(store') : r1.id = r2.id => r1 = r2
       /\ \A s \in Listings(store') :
            \A i, j \in 1..Len(s) : i # j => s[i].id # s[j].id
       /\ \A p \in Procs :
            (pc[p] = "upsert" /\ pc'[p] = "list") =>
                LET id == msg[p].id
                IN /\ store'[id].id = id
                   /\ \A o \in Ids \ {id} : store'[o] = store[o]
                   /\ IF HasRow(store, id)
                      THEN /\ store'[id].created_at = store[id].created_at
                           /\ Cardinality(Rows(store')) = Cardinality(Rows(store))
                      ELSE /\ store'[id].created_at = now
                           /\ Cardinality(Rows(store'))
                                 = Cardinality(Rows(store)) + 1
      ]_vars

\* two goroutines saw the identity for the first time at once: one has
\* committed its record, the other found none and is about to write
C18_Witness ==
    \E p \in Procs :
        /\ pc[p] = "upsert" /\ ~ctxExpired[p]
        /\ existing[p].err = "norows"
        /\ HasRow(store, msg[p].id)

\* C19: a record leaves the store only in a successful DeleteStaleDevices of
\* the sweeper, being last seen more than 48 hours before; no step of a
\* HandleMessage call, whether its message is accepted, dropped or its store
\* call fails, and no join or leave of a viewer removes a record.
C19_OnlySweeperRemoves ==
    [][/\ \A id \in Ids :
            (HasRow(store, id) /\ ~HasRow(store', id)) =>
                /\ pc[Sweeper] = "delete" /\ pc'[Sweeper] = "list"
                /\ now - store[id].last_seen > StaleHours
       /\ ((\E p \in Procs : pc'[p] # pc[p]) \/ connections' # connections) =>
                \A id \in Ids : HasRow(store, id) => HasRow(store', id)
      ]_vars

\* the sweeper has removed the one record while a viewer is joined
C19_Witness ==
    /\ pc[Sweeper] = "list"
    /\ nCommit > 0
    /\ Rows(store) = {}
    /\ vpc["v1"] = "joined"

\* C20: with messages handled one after the other, the last_seen of a
\* record never decreases while the record exists: a commit stamps it with
\* the time of the commit, which is not before the stamp it replaces, and no
\* other step changes it.
C20_LastSeenNeverDecreases ==
    [][\A id \in Ids :
        (HasRow(store, id) /\ HasRow(store', id)) =>
            /\ store'[id].last_seen >= store[id].last_seen
            /\ store'[id].last_seen # store[id].last_seen =>
                  /\ pc["g1"] = "upsert" /\ pc'["g1"] = "list"
                  /\ msg["g1"].id = id
                  /\ store'[id].last_seen = now
      ]_vars

\* the second commit for a record, a day after the first
C20_Witness ==
    \E id \in Ids :
        /\ pc["g1"] = "list" /\ mine["g1"] = 2 /\ msg["g1"].id = id
        /\ HasRow(store, id)
        /\ store[id].created_at = 0 /\ store[id].last_seen = 25

\* the record carries the fields an accepted message brings
Carries(row, m) ==
    IF m.type = "position" THEN CarriesFix(row, m.payload)
    ELSE row.battery_mv = Int64OfTenths(m.payload.battery_level)

\* C21: when the record of an identity was written by the commit before,
\* of the payload that is committed now, the commit leaves every field of
\* the record but last_seen as it was.
C21_ReconcileIdempotent ==
    [][(/\ pc["g1"] = "upsert" /\ pc'["g1"] = "list"
        /\ nCommit >= 1
        /\ HasRow(store, msg["g1"].id)
        /\ store[msg["g1"].id].ver = nCommit
        /\ Carries(store[msg["g1"].id], msg["g1"]))
       => LET old == store[msg["g1"].id]
              new == store'[msg["g1"].id]
          IN /\ SamePosition(new, old) /\ SameRest(new, old)
             /\ new.battery_mv = old.battery_mv
             /\ new.online = old.online
      ]_vars

\* the viewers added to the registry and not removed since
Joined == {v \in Viewers : vpc[v] = "joined"}

\* C22: in every state the calls on the registry leave, Count() is the
\* number of viewers added and not removed, no viewer is registered twice,
\* no group has an empty list, and a Remove of a viewer that is not joined
\* would return the map unchanged.
C22_RegistryConsistent ==
    /\ Count(connections) = Cardinality(Joined)
    /\ \A v \in Viewers :
          Cardinality({<<n, i>> \in (DOMAIN connections) \X (1..Cardinality(Viewers)) :
                          i <= Len(connections[n]) /\ connections[n][i] = v})
            = IF v \in Joined THEN 1 ELSE 0
    /\ \A n \in DOMAIN connections : Len(connections[n]) > 0
    /\ \A n \in Names, v \in Viewers \ Joined :
          Remove(connections, n, v) = connections

\* one viewer was removed from a group that still holds the other, while a
\* broadcast that collected both is writing
C22_Witness ==
    /\ vpc["v1"] = "closed" /\ vpc["v2"] = "joined"
    /\ DOMAIN connections = {"admins"}
    /\ allConns["g1"] = {"v1", "v2"} /\ pending["g1"] # {}

\* C23: while a goroutine of BroadcastAll has a write to a viewer in
\* flight, that BroadcastAll does not hold the registry lock: unless another
\* caller is inside its own locked section, an Add of a new viewer and a
\* Remove of a joined viewer can take the lock and complete.
C23_LockFreeDuringWrites ==
    \A w \in Procs :
        pending[w] # {} =>
            /\ w \notin ReadLocked
            /\ ReadLocked = {} =>
                  /\ \A v \in Viewers : vpc[v] = "new"
                                           => ENABLED AddCall("browsers", v)
                  /\ \A v \in Joined : ENABLED RemoveCall("browsers", v)

\* a viewer was added and another removed while a write of g1's broadcast
\* to the removed viewer was still in flight
C23_Witness ==
    /\ pending["g1"] = {"v1"}
    /\ allConns["g1"] = {"v1"}
    /\ vpc["v1"] = "closed" /\ vpc["v2"] = "joined"

\* C24: BroadcastAll collects exactly the viewers joined at that moment,
\* whatever their group; each of its writes goes to a collected viewer that
\* it has not written to yet and carries the bytes the call was given; no
\* viewer comes back for a second write; when it returns every collected
\* viewer has had its one write and no other viewer any.
C24_BroadcastCoverage ==
    [][\A w \in Procs :
        /\ (pc[w] = "fanout" /\ pc'[w] = "wait")
              => allConns'[w] = Joined /\ pending'[w] = Joined
        /\ (pc[w] = "wait" /\ pc'[w] = "wait")
              => /\ allConns'[w] = allConns[w]
                 /\ pending'[w] \subseteq pending[w]
                 /\ snapshot'[w] = snapshot[w]
                 /\ \A v \in Viewers :
                       result'[w][v] # result[w][v] =>
                          /\ v \in allConns[w] /\ v \in pending[w]
                          /\ result[w][v] = "none"
                          /\ v \notin pending'[w]
                          /\ result'[w][v] = "ok"
                                => last'[v] = broadcastData(snapshot[w])
                 /\ \A v \in Viewers \ pending[w] : last'[v] = last[v]
        /\ (pc[w] = "wait" /\ pc'[w] = "idle")
              => \A v \in Viewers :
                    (result[w][v] # "none") <=> (v \in allConns[w])
      ]_vars

\* a broadcast that collected one viewer of each group has failed to write
\* to the first and delivered to the second
C24_Witness ==
    /\ pc["g1"] = "wait" /\ pending["g1"] = {}
    /\ DOMAIN connections = Names
    /\ result["g1"] = [v \in Viewers |-> IF v = "v1" THEN "err" ELSE "ok"]

\* the bytes d are a snapshot of the store st: type "devices", one entry
\* per record, most recently seen first, online true for a non-zero flag
Assembled(d, st) ==
    /\ d.type = "devices"
    /\ Len(d.data) = Cardinality(Rows(st))
    /\ \A id \in {x \in Ids : HasRow(st, x)} :
          \E i \in 1..Len(d.data) :
             /\ d.data[i].id = id
             /\ \A j \in 1..Len(d.data) : d.data[j].id = id => j = i
             /\ d.data[i].online = (st[id].online # 0)
             /\ d.data[i].last_seen = st[id].last_seen
    /\ \A i, j \in 1..Len(d.data) :
          i < j => d.data[i].last_seen >= d.data[j].last_seen

\* C25: the bytes broadcastDevices builds from its listing, and the bytes
\* LoadAndBroadcast returns to a joining viewer, are a snapshot of the
\* store as it is when the listing is taken.
C25_SnapshotAssembly ==
    [][/\ \A w \in Procs :
            (pc[w] = "list" /\ pc'[w] = "fanout")
               => Assembled(broadcastData(snapshot'[w]), store)
       /\ \A v \in Viewers :
            (catchup[v].at = "load" /\ catchup'[v].at = "write")
               => Assembled(catchup'[v].data, store)
      ]_vars

\* a joining viewer's snapshot and a broadcast both list two records seen
\* on different days
C25_Witness ==
    /\ catchup["v1"].at = "write"
    /\ Len(catchup["v1"].data.data) = 2
    /\ catchup["v1"].data.data[1].last_seen > catchup["v1"].data.data[2].last_seen
    /\ \E w \in Procs : pc[w] = "fanout" /\ Len(snapshot[w]) = 2

\* C26: no step takes a record to a record of the same id with another
\* created_at; a record the sweeper deleted and a later message created
\* again is a new record, created at that later time.
C26_CreatedAtSetOnce ==
    [][\A id \in Ids :
          /\ (HasRow(store, id) /\ HasRow(store', id))
                => store'[id].created_at = store[id].created_at
          /\ (~HasRow(store, id) /\ HasRow(store', id))
                => store'[id].created_at = now
      ]_vars

\* a record created on one day was updated by a second message on a later
\* day
C26_Witness ==
    \E id \in Ids :
        /\ HasRow(store, id)
        /\ store[id].ver = 2
        /\ store[id].created_at < store[id].last_seen

\* C27: a write of a reconcile's fan-out to an open viewer can succeed as
\* long as the write's own five seconds, counted from the start of the
\* fan-out, have not passed, however long the store calls of the message
\* took before.
C27_FanoutBudgetIndependent ==
    \A w \in Procs, v \in Viewers :
        (/\ pc[w] = "wait" /\ v \in pending[w]
         /\ vpc[v] # "closed"
         /\ elapsed[w].fan < WriteSecs)
        => ENABLED (WriteViewer(w, v) /\ result'[w][v] = "ok")

\* how often viewer v is in the registry
Entries(cm, v) ==
    Cardinality({<<n, i>> \in (DOMAIN cm) \X (1..Cardinality(Viewers)) :
                    i <= Len(cm[n]) /\ cm[n][i] = v})

\* C28: a handler's connection enters the registry once, when the handler
\* starts; it leaves the registry only when the handler's receive loop
\* ends, which every handler reaches, also after a failed load or write of
\* its catch-up snapshot; the connection of a returned handler is not in
\* the registry; a failed write of a broadcast leaves the registry alone.
C28_ViewerLifecycle ==
    [][\A v \in Viewers :
        /\ Entries(connections', v) = IF vpc'[v] = "joined" THEN 1 ELSE 0
        /\ Entries(connections', v) > Entries(connections, v)
              => vpc[v] = "new"
        /\ Entries(connections', v) < Entries(connections, v)
              => catchup[v].at = "read" /\ vpc'[v] = "closed"
        /\ (catchup[v].at \in {"load", "write"} /\ catchup'[v] # catchup[v])
              => /\ catchup'[v].at \in {"write", "read"}
                 /\ connections' = connections
        /\ catchup[v].at = "read" => ENABLED ReadError(v)
        /\ \A w \in Procs :
              (result[w][v] = "none" /\ result'[w][v] = "err")
                 => connections' = connections
      ]_vars

\* a handler whose catch-up load failed is in its receive loop, still in the
\* registry, and a broadcast has just failed to write to its connection;
\* the other handler has returned
C28_Witness ==
    /\ vpc["v1"] = "joined" /\ catchup["v1"].at = "read" /\ last["v1"] = NoData
    /\ result["g1"]["v1"] = "err"
    /\ vpc["v2"] = "closed"

\* C29: a commit whose GetDevice failed with an error other than absence
\* does not take a field the payload does not carry (the position for
\* telemetry, the battery for a position) from a value in the existing
\* record to 0.
C29_NoResetOnReadError ==
    [][\A p \in Procs :
        (/\ pc[p] = "upsert" /\ pc'[p] = "list"
         /\ existing[p].err = "other"
         /\ HasRow(store, msg[p].id))
        => LET old == store[msg[p].id]
               new == store'[msg[p].id]
           IN IF msg[p].type = "position"
              THEN old.battery_mv # 0 => new.battery_mv # 0
              ELSE /\ old.lat # ZeroFloat => new.lat # ZeroFloat
                   /\ old.lon # ZeroFloat => new.lon # ZeroFloat
                   /\ old.alt # 0 => new.alt # 0
                   /\ old.speed # 0 => new.speed # 0
                   /\ old.sats # 0 => new.sats # 0
      ]_vars

\* C30: when the catch-up snapshot of a joining viewer is delivered after a
\* broadcast was delivered to it, the catch-up snapshot is that broadcast's
\* snapshot or lists the store as it is now: the viewer is never taken back
\* to an older state.
C30_JoinNotStale ==
    [][\A v \in Viewers :
        (/\ catchup[v].at = "write" /\ catchup'[v].at = "read"
         /\ last'[v] = catchup[v].data
         /\ last[v] # NoData)
        => \/ catchup[v].data = last[v]
           \/ catchup[v].data \in {LoadAndBroadcast(s) : s \in Listings(store)}
      ]_vars

\* C31: a step of a HandleMessage call, whether it accepts, drops, commits
\* or fails, changes the record of no identity but the one of its message;
\* a call whose context is live can commit whatever the other call is doing,
\* and its commit writes the fields of its own payload to its own record,
\* leaving the record a concurrent call for another identity has committed
\* as that call wrote it.
C31_ReconcileTouchesOneRow ==
    [][\A p \in Procs :
        /\ pc'[p] # pc[p]
              => \A b \in Ids :
                    (msg[p] = NoMsg \/ b # msg[p].id) => store'[b] = store[b]
        /\ (pc[p] = "upsert" /\ ~CtxDone(p)) => ENABLED UpsertOk(p)
        /\ (pc[p] = "upsert" /\ pc'[p] = "list")
              => /\ store'[msg[p].id].ver = mine'[p]
                 /\ Carries(store'[msg[p].id], msg[p])
                 /\ \A q \in Procs \ {p} :
                       (mine[q] > 0 /\ msg[q].id # msg[p].id)
                          => store'[msg[q].id] = store[msg[q].id]
      ]_vars

\* the two goroutines have committed for different senders and neither has
\* returned
C31_Witness ==
    /\ mine["g1"] > 0 /\ mine["g2"] > 0
    /\ msg["g1"].id # msg["g2"].id
    /\ msg["g1"].type = "position" /\ msg["g2"].type = "telemetry"
    /\ pc["g1"] = "list" /\ pc["g2"] = "list"

\* a packet of another type than position and telemetry, or a telemetry
\* payload with neither battery level nor voltage
EmptyCase(pkt) ==
    /\ pkt \notin {Malformed, Flat}
    /\ \/ pkt.type \notin {"position", "telemetry"}
       \/ /\ pkt.type = "telemetry" /\ pkt.payload # Malformed
          /\ pkt.payload.battery_level = 0 /\ pkt.payload.voltage = 0

\* a telemetry payload with a voltage and battery level 0
VoltageOnly(pkt) ==
    /\ pkt \notin {Malformed, Flat}
    /\ pkt.type = "telemetry" /\ pkt.payload # Malformed
    /\ pkt.payload.battery_level = 0 /\ pkt.payload.voltage # 0

\* the topics HandleMessage processes
JsonTopics == {t \in Topics : isMeshtasticJSONTopic(t)}

\* C32: HandleMessage drops a packet of another type and a telemetry payload
\* with battery level and voltage 0: the call goes to its return with the
\* store, the listing and the viewers untouched, and cannot go on to the
\* store.  A telemetry payload with battery level 0 and a voltage is
\* accepted, and its commit stores battery 0.
C32_EmptyDroppedVoltageAccepted ==
    [][\A p \in Procs :
        /\ (pc[p] = "idle" /\ nMsgs < MaxMsgs) =>
              \A topic \in JsonTopics, pkt \in Packets :
                 /\ EmptyCase(pkt) =>
                       /\ ENABLED (/\ HandleMessage(p, topic, pkt)
                                   /\ pc'[p] = "dropped"
                                   /\ UNCHANGED <<store, nCommit, msg, snapshot,
                                                  allConns, pending, last>>)
                       /\ ~ENABLED (HandleMessage(p, topic, pkt) /\ pc'[p] # "dropped")
                 /\ VoltageOnly(pkt) =>
                       /\ ENABLED (/\ HandleMessage(p, topic, pkt)
                                   /\ pc'[p] = "get"
                                   /\ msg'[p] = [id |-> nodeID(pkt.from),
                                                 type |-> "telemetry",
                                                 payload |-> pkt.payload])
                       /\ ~ENABLED (HandleMessage(p, topic, pkt) /\ pc'[p] # "get")
        /\ (pc[p] = "idle" /\ pc'[p] = "get" /\ msg'[p].type = "telemetry")
              => ~(/\ msg'[p].payload.battery_level = 0
                   /\ msg'[p].payload.voltage = 0)
        /\ (/\ pc[p] = "upsert" /\ pc'[p] = "list"
            /\ msg[p].type = "telemetry" /\ msg[p].payload.battery_level = 0)
              => store'[msg[p].id].battery_mv = 0
      ]_vars

\* the second commit of the run was a voltage-only report; the record it
\* wrote has battery 0
C32_Witness ==
    \E id \in Ids :
        /\ HasRow(store, id) /\ store[id].ver = 2 /\ store[id].battery_mv = 0
        /\ pc["g1"] = "list" /\ msg["g1"].type = "telemetry"
        /\ msg["g1"].payload.voltage # 0

\* sender numbers of a uint32, the smallest and large ones among them
FromSamples == {0, 1, 10, 15, 16, 255, 256, 4095, 65536, 16777215,
                268435456, 2147483647}

\* the "from" field of an envelope as sent; 0 when the envelope has none
FromOf(pkt) == IF "from" \in DOMAIN pkt THEN pkt.from ELSE 0

\* C33: nodeID renders a sender number as "!" and eight lowercase hex
\* digits, different numbers as different ids, 0 as "!00000000"; on every
\* JSON topic, whatever its node segment, HandleMessage takes an accepted
\* envelope to the id of its "from" field, an envelope without the field to
\* "!00000000", and to no other id; the commit writes the record of that id.
C33_IdentityFromSender ==
    [][/\ \A f \in FromSamples :
            /\ Len(nodeID(f)) = 9 /\ nodeID(f)[1] = "!"
            /\ \A i \in 2..9 : \E k \in 1..16 : nodeID(f)[i] = HexChars[k]
            /\ \A g \in FromSamples : f # g => nodeID(f) # nodeID(g)
       /\ nodeID(0) = <<"!", "0", "0", "0", "0", "0", "0", "0", "0">>
       /\ nodeID(10) = <<"!", "0", "0", "0", "0", "0", "0", "0", "a">>
       /\ (pc["g1"] = "idle" /\ nMsgs < MaxMsgs) =>
             \A topic \in {t \in NodeTopics : isMeshtasticJSONTopic(t)},
                pkt \in Fixes \cup Beats \cup {NoFromFix} :
                /\ ENABLED (/\ HandleMessage("g1", topic, pkt)
                            /\ pc'["g1"] = "get"
                            /\ msg'["g1"].id = nodeID(FromOf(pkt)))
                /\ ~ENABLED (/\ HandleMessage("g1", topic, pkt)
                             /\ \/ pc'["g1"] # "get"
                                \/ msg'["g1"].id # nodeID(FromOf(pkt)))
       /\ (pc["g1"] = "upsert" /\ pc'["g1"] = "list") =>
             /\ store'[msg["g1"].id].id = msg["g1"].id
             /\ \A b \in Ids \ {msg["g1"].id} : store'[b] = store[b]
      ]_vars

\* two envelopes without "from" were reconciled: the one record of the
\* store is "!00000000", written twice
C33_Witness ==
    /\ HasRow(store, nodeID(0))
    /\ store[nodeID(0)].ver = 2
    /\ \A b \in Ids \ {nodeID(0)} : ~HasRow(store, b)

\* C34: BroadcastAll returns only when none of the writes it started is
\* still running; with no viewer collected it can return at once; and once
\* its goroutines are started it does return.
C34_BroadcastAllTerminates ==
    /\ [][\A w \in Procs :
            (pc[w] = "wait" /\ pc'[w] # "wait")
               => /\ pending[w] = {}
                  /\ \A v \in allConns[w] : result[w][v] # "none"]_vars
    /\ [](\A w \in Procs :
            (pc[w] = "wait" /\ allConns[w] = {}) => ENABLED BroadcastReturn(w))
    /\ \A w \in Procs : (pc[w] = "wait") ~> (pc[w] = "idle")

\* a broadcast with the writes to both viewers still running, and one of
\* the viewers already closed
C34_Witness ==
    /\ pc["g1"] = "wait"
    /\ pending["g1"] = {"v1", "v2"}
    /\ vpc["v1"] = "closed"

====
